---- MODULE Spec2Model ----
(***************************************************************************)
(* Model of generate_pokedex.py: the streak calculation, the statistics   *)
(* record built from the six GitHub fetches, the percentages handed to    *)
(* the stat bars, the fixed-width box layout and the card animation.      *)
(***************************************************************************)
EXTENDS Integers, Sequences, FiniteSets, TLC

VARIABLES
    pc,          \* position of main() / of the function under study
    history,     \* calculate_streaks: the contribution_days argument
    result,      \* calculate_streaks: the returned (current, longest) pair
    hasToken,    \* fetch_github_stats: GITHUB_TOKEN is set
    callLog,     \* fetch_github_stats: the HTTP requests issued so far, in order
    returned,    \* fetch_github_stats: what each fetch handed back (None or a count)
    raw,         \* fetch_github_stats: the local variables of the function
    stats,       \* the statistics record returned by fetch_github_stats
    pcts,        \* generate_pokemon_svg: the percentages passed to the stat bars
    label,       \* box_stat: the label argument
    value,       \* box_stat: the value argument
    line,        \* box_stat: the returned line
    t,           \* animation: the sampled instant of the cycle
    opacity      \* animation: the opacity of each card at instant t

streakVars == <<history, result>>

statsVars == <<hasToken, callLog, returned, raw, stats, pcts>>

boxVars == <<label, value, line>>

animVars == <<t, opacity>>

vars == <<pc, streakVars, statsVars, boxVars, animVars>>

\* Python's None, as a record so that it compares with JSON objects
None == [NoneType |-> TRUE]

Max(a, b) == IF a >= b THEN a ELSE b

Min(a, b) == IF a <= b THEN a ELSE b

(***************************************************************************)
(* Bounds of the model.                                                    *)
(***************************************************************************)
\* days before today that a history may reach back
MaxBack == 5

\* largest contributionCount of one day in a streak history
MaxDayCount == 1

\* longest history that is drawn without regard to order or duplicates
MaxUnsortedLen == 3

(***************************************************************************)
(* Dates are day ordinals.  RecentWindowDays is the timedelta of the       *)
(* "last 30 days" window; today lies far enough from ordinal 0 for the     *)
(* whole window to exist.                                                  *)
(***************************************************************************)
RecentWindowDays == 30

Today == RecentWindowDays + MaxBack

(***************************************************************************)
(* calculate_streaks                                                       *)
(***************************************************************************)
\* one step of the backward walk: loop state s, calendar entry day
StepBack_breakOnZeroToday(s, day) ==
    IF s.done THEN s
    ELSE IF day.date > Today THEN s
    ELSE IF day.date = Today THEN
        IF day.contributionCount > 0
        THEN [streak |-> 1, found_today |-> TRUE, done |-> FALSE]
        ELSE [streak |-> 0, found_today |-> TRUE, done |-> TRUE]
    ELSE IF s.found_today \/ day.date = Today - 1 THEN
        IF day.contributionCount > 0
        THEN [streak |-> s.streak + 1, found_today |-> TRUE, done |-> FALSE]
        ELSE [streak |-> s.streak, found_today |-> TRUE, done |-> TRUE]
    ELSE s

StepBack_todayNotCounted(s, day) ==
    IF s.done THEN s
    ELSE IF day.date > Today THEN s
    ELSE IF day.date = Today THEN
        [streak |-> 0, found_today |-> TRUE, done |-> FALSE]
    ELSE IF s.found_today \/ day.date = Today - 1 THEN
        IF day.contributionCount > 0
        THEN [streak |-> s.streak + 1, found_today |-> TRUE, done |-> FALSE]
        ELSE [streak |-> s.streak, found_today |-> TRUE, done |-> TRUE]
    ELSE s

StepBack(s, day) ==
    IF s.done THEN s
    ELSE IF day.date > Today THEN s
    ELSE IF day.date = Today THEN
        [streak |-> IF day.contributionCount > 0 THEN 1 ELSE 0,
         found_today |-> TRUE, done |-> FALSE]
    ELSE IF s.found_today \/ day.date = Today - 1 THEN
        IF day.contributionCount > 0
        THEN [streak |-> s.streak + 1, found_today |-> TRUE, done |-> FALSE]
        ELSE [streak |-> s.streak, found_today |-> TRUE, done |-> TRUE]
    ELSE s

RECURSIVE WalkBack(_, _, _)
\* for day in reversed(contribution_days): i is the index still to visit
WalkBack(days, i, s) ==
    IF i = 0 THEN s.streak
    ELSE WalkBack(days, i - 1, StepBack(s, days[i]))

CurrentStreak(days) ==
    WalkBack(days, Len(days), [streak |-> 0, found_today |-> FALSE, done |-> FALSE])

\* one step of the forward scan: s = [streak, longest_streak]
StepForward(s, day) ==
    IF day.contributionCount > 0
    THEN [streak |-> s.streak + 1, longest_streak |-> Max(s.longest_streak, s.streak + 1)]
    ELSE [streak |-> 0, longest_streak |-> s.longest_streak]

RECURSIVE ScanForward(_, _, _)
ScanForward(days, i, s) ==
    IF i > Len(days) THEN s.longest_streak
    ELSE ScanForward(days, i + 1, StepForward(s, days[i]))

ForwardLongest(days) == ScanForward(days, 1, [streak |-> 0, longest_streak |-> 0])

calculate_streaks_noFinalMax(contribution_days) ==
    <<CurrentStreak(contribution_days), ForwardLongest(contribution_days)>>

calculate_streaks(contribution_days) ==
    LET current_streak == CurrentStreak(contribution_days)
        longest_streak == Max(ForwardLongest(contribution_days), current_streak)
    IN  <<current_streak, longest_streak>>

(***************************************************************************)
(* Histories handed to calculate_streaks.  A calendar from the API has at  *)
(* most one entry per day in ascending order (days may be missing); the    *)
(* function itself accepts any list, so short lists of the days around     *)
(* today, in any order, are drawn as well.                                 *)
(***************************************************************************)
FirstDate == Today - MaxBack

LastDate == Today + 1

Dates == FirstDate..LastDate

Absent == 0 - 1

Day(d, c) == [date |-> d, contributionCount |-> c]

\* the days around today, where the walk's branches differ
NearDates == (Today - 2)..LastDate

DayEntries == {Day(d, c) : d \in NearDates, c \in 0..MaxDayCount}

\* the ascending history holding day d with count f[d] unless f[d] = Absent
HistoryOf(f) ==
    SelectSeq([i \in 1..(LastDate - FirstDate + 1) |-> Day(FirstDate + i - 1, f[FirstDate + i - 1])],
              LAMBDA e : e.contributionCount # Absent)

SortedHistories == {HistoryOf(f) : f \in [Dates -> {Absent} \cup 0..MaxDayCount]}

AnyOrderHistories == UNION {[1..n -> DayEntries] : n \in 0..MaxUnsortedLen}

Histories == SortedHistories \cup AnyOrderHistories

NoResult == <<-1, -1>>

Idle ==
    /\ hasToken = FALSE
    /\ callLog = <<>>
    /\ returned = <<>>
    /\ raw = <<>>
    /\ stats = None
    /\ pcts = None

IdleBox ==
    /\ label = <<>>
    /\ value = <<>>
    /\ line = <<>>

IdleAnim ==
    /\ t = 0
    /\ opacity = <<>>

InitStreaks ==
    /\ pc = "calculate_streaks"
    /\ history \in Histories
    /\ result = NoResult
    /\ Idle
    /\ IdleBox
    /\ IdleAnim

\* current_streak, longest_streak = calculate_streaks(all_days)
CalculateStreaks ==
    /\ pc = "calculate_streaks"
    /\ result' = calculate_streaks(history)
    /\ pc' = "done"
    /\ UNCHANGED <<history, statsVars, boxVars, animVars>>

NextStreaks == CalculateStreaks

SpecStreaks == InitStreaks /\ [][NextStreaks]_vars

(***************************************************************************)
(* Vocabulary of the streak claims.                                        *)
(***************************************************************************)
Returned == pc = "done"

current_streak == result[1]

longest_streak == result[2]

\* ascending dates, hence no date twice
Chronological(h) == \A i \in 1..(Len(h) - 1) : h[i].date < h[i + 1].date

HasDay(h, d) == \E i \in 1..Len(h) : h[i].date = d

IndexOf(h, d) == CHOOSE i \in 1..Len(h) : h[i].date = d

CountOn(h, d) == h[IndexOf(h, d)].contributionCount

ActiveOn(h, d) == HasDay(h, d) /\ CountOn(h, d) > 0

RECURSIVE RunEndingAt(_, _)
\* the number of consecutive count > 0 entries of h that end with entry i
RunEndingAt(h, i) ==
    IF i = 0 \/ h[i].contributionCount = 0 THEN 0 ELSE 1 + RunEndingAt(h, i - 1)

RECURSIVE CalendarRun(_, _)
\* the number of consecutive calendar days ending with day d that have a
\* count > 0 entry, a day without an entry counting as a day with count 0
CalendarRun(h, d) ==
    IF d < FirstDate \/ ~ActiveOn(h, d) THEN 0 ELSE 1 + CalendarRun(h, d - 1)

\* the most recent entry dated today or earlier is today's, with count 0
TodayIsZero(h) == Chronological(h) /\ HasDay(h, Today) /\ CountOn(h, Today) = 0

\* today and the k days before it are active, the day before those has count 0
ActiveRun(h, k) ==
    /\ Chronological(h)
    /\ \A j \in 0..k : ActiveOn(h, Today - j)
    /\ HasDay(h, Today - k - 1)
    /\ CountOn(h, Today - k - 1) = 0

(***************************************************************************)
(* Claims about calculate_streaks, checked under SpecStreaks.              *)
(***************************************************************************)
\* C1 as stated: when today's entry is the most recent one dated today or
\* earlier and its count is 0, the current streak returned is 0, whatever
\* the earlier days hold.
C1_ZeroTodayBreaksStreak ==
    (Returned /\ TodayIsZero(history)) => current_streak = 0

\* C1 amended: when today's entry has count 0 it is skipped: the current
\* streak returned is the number of consecutive count > 0 entries that
\* immediately precede today's entry.
C1_ZeroTodayIsSkipped ==
    (Returned /\ TodayIsZero(history)) =>
        current_streak = RunEndingAt(history, IndexOf(history, Today) - 1)

\* C1 witness: today has count 0, yesterday and the day before are active,
\* and the streak returned is 2.
C1_Witness ==
    /\ Returned
    /\ TodayIsZero(history)
    /\ ActiveOn(history, Today - 1)
    /\ ActiveOn(history, Today - 2)
    /\ HasDay(history, Today - 3)
    /\ ~ActiveOn(history, Today - 3)
    /\ current_streak = 2

\* C2: in an ascending history where today and the K days before it have
\* count > 0 and the day before those has count 0, the current streak is
\* K + 1 (and the longest streak is at least that), entries dated after
\* today being ignored.
C2_ActiveRunCounted ==
    Returned =>
        \A k \in 0..(MaxBack - 1) :
            ActiveRun(history, k) =>
                /\ current_streak = k + 1
                /\ longest_streak >= k + 1

\* C2 witness: today and the 4 days before it active, the 6th day 0, an
\* entry dated tomorrow present, and (5, longest >= 5) returned.
C2_Witness ==
    /\ Returned
    /\ ActiveRun(history, 4)
    /\ HasDay(history, Today + 1)
    /\ current_streak = 5
    /\ longest_streak >= 5

\* C3: for every input list the longest streak returned is at least the
\* current streak returned, and it is the larger of the forward scan's
\* longest run and the current streak.
C3_LongestAtLeastCurrent ==
    Returned =>
        /\ longest_streak >= current_streak
        /\ longest_streak >= ForwardLongest(history)
        /\ longest_streak \in {current_streak, ForwardLongest(history)}

\* C3 witness: the current streak exceeds every run the forward scan finds,
\* so the current streak is itself the longest streak returned.
C3_Witness ==
    /\ Returned
    /\ current_streak > ForwardLongest(history)
    /\ longest_streak = current_streak

\* C10 as stated: a day without an entry counts as a day with count 0, so
\* the current streak is the run of consecutive active calendar days that
\* ends today, or yesterday when today has no entry.
C10_MissingDayEndsStreak ==
    (Returned /\ Chronological(history)
        /\ (~HasDay(history, Today) \/ CountOn(history, Today) > 0)) =>
        current_streak =
            CalendarRun(history, IF HasDay(history, Today) THEN Today ELSE Today - 1)

(***************************************************************************)
(* fetch_github_stats and the percentages of generate_pokemon_svg          *)
(***************************************************************************)
\* largest total_count a search returns, besides the two counts of the
\* closed-exceeds-opened scenario
MaxCount == 1

\* weeks of the contribution calendar, the last one ending tomorrow
CalendarWeeks == 5

\* int((a / b) * 100) is computed in binary floating point: for these (a, b),
\* with 0 <= a < 130 and 0 < b < 620, the product lies just below the integer
\* 100a/b and truncates to one less than it; for every other pair of that
\* range the result is the floor of 100a/b
TruncatesBelow ==
    { <<23, 5>>, <<41, 5>>, <<46, 5>>, <<51, 5>>, <<82, 5>>, <<87, 5>>, <<92, 5>>,
      <<97, 5>>, <<102, 5>>, <<23, 10>>, <<41, 10>>, <<46, 10>>, <<51, 10>>,
      <<82, 10>>, <<87, 10>>, <<92, 10>>, <<97, 10>>, <<102, 10>>, <<69, 15>>,
      <<123, 15>>, <<23, 20>>, <<41, 20>>, <<46, 20>>, <<51, 20>>, <<82, 20>>,
      <<87, 20>>, <<92, 20>>, <<97, 20>>, <<102, 20>>, <<29, 25>>, <<57, 25>>,
      <<58, 25>>, <<113, 25>>, <<114, 25>>, <<115, 25>>, <<116, 25>>, <<69, 30>>,
      <<123, 30>>, <<46, 40>>, <<82, 40>>, <<92, 40>>, <<102, 40>>, <<29, 50>>,
      <<57, 50>>, <<58, 50>>, <<113, 50>>, <<114, 50>>, <<115, 50>>, <<116, 50>>,
      <<69, 60>>, <<123, 60>>, <<87, 75>>, <<92, 80>>, <<29, 100>>, <<57, 100>>,
      <<58, 100>>, <<113, 100>>, <<114, 100>>, <<115, 100>>, <<116, 100>>,
      <<87, 150>>, <<58, 200>>, <<114, 200>>, <<116, 200>>, <<87, 300>>,
      <<116, 400>> }

\* int((a / b) * 100)
IntPercent(a, b) ==
    IF <<a, b>> \in TruncatesBelow THEN (100 * a) \div b - 1 ELSE (100 * a) \div b

\* fetch_github_api, given the response requests.get hands back
fetch_github_api_statusIgnored(response) == response.body

fetch_github_api(response) ==
    IF response.status # 200 THEN None ELSE response.body

\* data.get('total_count', 0) if data else 0
TotalCount(data) ==
    IF data = None THEN 0
    ELSE IF "total_count" \in DOMAIN data THEN data.total_count
    ELSE 0

\* fetch_contributions, given GITHUB_TOKEN and the response requests.post
\* hands back when the request is made
fetch_contributions(token, response) ==
    IF ~token THEN None
    ELSE IF response.status # 200 THEN None
    ELSE IF "errors" \in DOMAIN response.body THEN None
    ELSE response.body.data.user.contributionsCollection

RECURSIVE Flatten(_, _)
\* all_days: the contributionDays of weeks i.. in order
Flatten(weeks, i) ==
    IF i > Len(weeks) THEN <<>>
    ELSE weeks[i].contributionDays \o Flatten(weeks, i + 1)

RecentStep(s, day) ==
    IF /\ day.date >= Today - RecentWindowDays
       /\ day.date <= Today
       /\ day.contributionCount > 0
    THEN [recent_activity |-> s.recent_activity + 1,
          recent_commits |-> s.recent_commits + day.contributionCount]
    ELSE s

RECURSIVE RecentLoop(_, _, _)
\* for day in all_days: i is the next index
RecentLoop(days, i, s) ==
    IF i > Len(days) THEN s
    ELSE RecentLoop(days, i + 1, RecentStep(s, days[i]))

\* the contribution-derived locals of fetch_github_stats
ContributionStats(contributions) ==
    IF contributions # None
    THEN LET all_days == Flatten(contributions.contributionCalendar.weeks, 1)
             streaks == calculate_streaks(all_days)
             recent == RecentLoop(all_days, 1, [recent_activity |-> 0, recent_commits |-> 0])
         IN  [total_commits |-> contributions.totalCommitContributions,
              current_streak |-> streaks[1],
              longest_streak |-> streaks[2],
              recent_activity |-> recent.recent_activity,
              recent_commits |-> recent.recent_commits]
    ELSE [total_commits |-> 0, current_streak |-> 0, longest_streak |-> 0,
          recent_activity |-> 0, recent_commits |-> 0]

\* the record fetch_github_stats returns, from its locals r
StatsRecord_unclamped(r) ==
    [current_streak |-> r.current_streak,
     longest_streak |-> r.longest_streak,
     days_active_month |-> r.recent_activity,
     issues_closed |-> r.issues_closed,
     issues_open |-> r.issues_opened - r.issues_closed,
     issue_close_rate |-> IntPercent(r.issues_closed, Max(r.issues_opened, 1)),
     total_commits |-> r.total_commits,
     recent_commits |-> r.recent_commits,
     prs_merged |-> r.prs_merged,
     prs_opened |-> r.prs_opened,
     prs_reviewed |-> r.prs_reviewed]

StatsRecord(r) ==
    [current_streak |-> r.current_streak,
     longest_streak |-> r.longest_streak,
     days_active_month |-> r.recent_activity,
     issues_closed |-> r.issues_closed,
     issues_open |-> Max(r.issues_opened - r.issues_closed, 0),
     issue_close_rate |-> Min(IntPercent(r.issues_closed, Max(r.issues_opened, 1)), 100),
     total_commits |-> r.total_commits,
     recent_commits |-> r.recent_commits,
     prs_merged |-> r.prs_merged,
     prs_opened |-> r.prs_opened,
     prs_reviewed |-> r.prs_reviewed]

\* the percentages generate_pokemon_svg passes to create_stat_bar
Percentages(st) ==
    [streak_pct |-> Min(IntPercent(st.current_streak, Max(st.longest_streak, 1)), 100),
     active_pct |-> IntPercent(st.days_active_month, 30),
     close_rate |-> st.issue_close_rate,
     close_rate_bar |-> Min(st.issue_close_rate, 100),
     snooze_pct |-> Min(IntPercent(st.issues_open, Max(st.issues_open + st.issues_closed, 1)), 100),
     recent_pct |-> Min(IntPercent(st.recent_commits, Max(st.total_commits, 1)), 100),
     merged_pct |-> Min(IntPercent(st.prs_merged, Max(st.prs_opened, 1)), 100),
     opened_pct |-> Min(IntPercent(st.prs_opened, Max(st.prs_opened + 50, 1)), 100),
     reviewed_pct |-> Min(IntPercent(st.prs_reviewed, Max(st.prs_reviewed + 50, 1)), 100),
     commit_pct |-> Min(IntPercent(st.total_commits, Max(st.total_commits + 500, 1)), 100)]

(***************************************************************************)
(* What the API may answer.  A calendar has CalendarWeeks whole weeks, one *)
(* entry per day, the last entry dated tomorrow; the days from..to carry   *)
(* count c and the others 0.                                               *)
(***************************************************************************)
FirstCalendarDate == Today + 2 - 7 * CalendarWeeks

WeeksOf(from, to, c) ==
    [w \in 1..CalendarWeeks |->
        [contributionDays |->
            [i \in 1..7 |->
                LET d == FirstCalendarDate + 7 * (w - 1) + i - 1
                IN  Day(d, IF from <= d /\ d <= to THEN c ELSE 0)]]]

ActiveFrom ==
    {Today - RecentWindowDays - 1, Today - RecentWindowDays,
     Today - RecentWindowDays + 1, Today - 1, Today + 2}

ActiveTo == {Today - 1, Today + 1}

\* total_count of a pull-request search
PrCounts == 0..MaxCount

\* total_count of an issue search, and totalCommitContributions
CountValues == (0..MaxCount) \cup {10, 12}

Collection(n, from, to, c) ==
    [totalCommitContributions |-> n,
     contributionCalendar |-> [weeks |-> WeeksOf(from, to, c)]]

Collections ==
    {Collection(n, from, to, c) :
        n \in CountValues, from \in ActiveFrom, to \in ActiveTo, c \in {MaxDayCount}}

UserData(c) == [user |-> [contributionsCollection |-> c]]

\* a failed query may still carry data: the outcome must not depend on it
StaleCollection == Collection(MaxCount, Today - RecentWindowDays, Today + 1, 1)

GraphQLResponses ==
    {[status |-> 200, body |-> [data |-> UserData(c)]] : c \in Collections}
    \cup {[status |-> 200,
           body |-> [errors |-> "NOT_FOUND", data |-> UserData(StaleCollection)]],
          [status |-> 502, body |-> [data |-> UserData(StaleCollection)]]}

SearchResponses(name) ==
    {[status |-> 200, body |-> [total_count |-> n]] :
        n \in IF name \in {"issues_closed", "issues_opened"} THEN CountValues ELSE PrCounts}
    \cup {[status |-> 403, body |-> [message |-> "rate limit exceeded"]],
          [status |-> 422, body |-> [total_count |-> MaxCount]]}

\* what a search handed back: a count on success, nothing otherwise
SearchOutcome(response) ==
    IF response.status = 200
    THEN [ok |-> TRUE, count |-> response.body.total_count]
    ELSE [ok |-> FALSE]

\* what the contribution query handed back
ContributionOutcome(token, response) ==
    IF token /\ response.status = 200 /\ "errors" \notin DOMAIN response.body
    THEN [ok |-> TRUE,
          count |-> response.body.data.user.contributionsCollection.totalCommitContributions]
    ELSE [ok |-> FALSE]

InitStats ==
    /\ pc = "contributions"
    /\ hasToken \in BOOLEAN
    /\ callLog = <<>>
    /\ returned = <<>>
    /\ raw = <<>>
    /\ stats = None
    /\ pcts = None
    /\ history = <<>>
    /\ result = NoResult
    /\ IdleBox
    /\ IdleAnim

\* contributions = fetch_contributions(headers), and the locals derived from it
FetchContributions ==
    /\ pc = "contributions"
    /\ \E response \in GraphQLResponses :
        /\ raw' = ContributionStats(fetch_contributions(hasToken, response))
        /\ returned' = ("contributions" :> ContributionOutcome(hasToken, response))
    /\ callLog' = IF hasToken THEN Append(callLog, "contributions") ELSE callLog
    /\ pc' = "prs_merged"
    /\ UNCHANGED <<streakVars, hasToken, stats, pcts, boxVars, animVars>>

\* one of the five searches: name = fetch_github_api(url, headers) ... total_count;
\* the last one is followed by the construction of the returned record
Search(name, next) ==
    /\ pc = name
    /\ \E response \in SearchResponses(name) :
        /\ raw' = raw @@ (name :> TotalCount(fetch_github_api(response)))
        /\ returned' = returned @@ (name :> SearchOutcome(response))
    /\ callLog' = Append(callLog, name)
    /\ pc' = next
    /\ stats' = IF next = "generate_pokemon_svg" THEN StatsRecord(raw') ELSE stats
    /\ UNCHANGED <<streakVars, hasToken, pcts, boxVars, animVars>>

\* svg_content = generate_pokemon_svg(stats): its percentages
GenerateSvg ==
    /\ pc = "generate_pokemon_svg"
    /\ pcts' = Percentages(stats)
    /\ pc' = "done"
    /\ UNCHANGED <<streakVars, hasToken, callLog, returned, raw, stats,
                   boxVars, animVars>>

NextStats ==
    \/ FetchContributions
    \/ Search("prs_merged", "prs_opened")
    \/ Search("prs_opened", "issues_closed")
    \/ Search("issues_closed", "issues_opened")
    \/ Search("issues_opened", "prs_reviewed")
    \/ Search("prs_reviewed", "generate_pokemon_svg")
    \/ GenerateSvg

SpecStats == InitStats /\ [][NextStats]_vars

(***************************************************************************)
(* Claims about the statistics record, checked under SpecStats.            *)
(***************************************************************************)
Fetched == pc \in {"generate_pokemon_svg", "done"}

Searches == <<"prs_merged", "prs_opened", "issues_closed", "issues_opened", "prs_reviewed">>

ExpectedLog == (IF hasToken THEN <<"contributions">> ELSE <<>>) \o Searches

IsPrefix(s, u) == Len(s) <= Len(u) /\ \A i \in 1..Len(s) : s[i] = u[i]

\* C4 as stated: every percentage handed to a stat bar lies in [0,100].
C4_PercentagesInRange ==
    pc = "done" => \A k \in DOMAIN pcts : pcts[k] >= 0 /\ pcts[k] <= 100

\* C5: issues_open is max(issues_opened - issues_closed, 0), never negative,
\* issue_close_rate lies in [0,100], and when more issues are closed than
\* opened the record has issues_open = 0 and issue_close_rate = 100.
C5_IssueFields ==
    Fetched =>
        LET opened == raw.issues_opened
            closed == raw.issues_closed
        IN  /\ stats.issues_open = Max(opened - closed, 0)
            /\ stats.issues_open >= 0
            /\ stats.issue_close_rate >= 0
            /\ stats.issue_close_rate <= 100
            /\ closed > opened =>
                (stats.issues_open = 0 /\ stats.issue_close_rate = 100)

\* C5 witness: 10 issues opened, 12 closed, and the record has 0 open
\* issues and a close rate of 100.
C5_Witness ==
    /\ Fetched
    /\ raw.issues_opened = 10
    /\ raw.issues_closed = 12
    /\ stats.issues_open = 0
    /\ stats.issue_close_rate = 100

\* C8: whichever fetches fail, the remaining requests are each made once in
\* the fixed order; a failed search counts 0 and a successful one counts
\* what it returned; a failed contribution query zeroes the five
\* contribution-derived fields and a successful one keeps its total.
C8_PartialOutage ==
    /\ IsPrefix(callLog, ExpectedLog)
    /\ Fetched =>
        /\ callLog = ExpectedLog
        /\ \A i \in 1..Len(Searches) :
            raw[Searches[i]] =
                IF returned[Searches[i]].ok THEN returned[Searches[i]].count ELSE 0
        /\ stats.prs_merged = raw.prs_merged
        /\ stats.prs_opened = raw.prs_opened
        /\ stats.prs_reviewed = raw.prs_reviewed
        /\ stats.issues_closed = raw.issues_closed
        /\ IF returned.contributions.ok
           THEN stats.total_commits = returned.contributions.count
           ELSE /\ stats.current_streak = 0
                /\ stats.longest_streak = 0
                /\ stats.days_active_month = 0
                /\ stats.total_commits = 0
                /\ stats.recent_commits = 0

\* C8 witness: the contribution query and two searches failed, one of them
\* with a count in its error body, and the other searches kept their counts.
C8_Witness ==
    /\ Fetched
    /\ hasToken
    /\ ~returned.contributions.ok
    /\ ~returned.prs_opened.ok
    /\ ~returned.issues_opened.ok
    /\ returned.prs_merged.ok
    /\ returned.prs_merged.count > 0
    /\ stats.prs_merged = returned.prs_merged.count
    /\ stats.prs_opened = 0
    /\ returned.issues_closed.ok
    /\ stats.issues_closed = 10
    /\ stats.issues_open = 0
    /\ stats.total_commits = 0

(***************************************************************************)
(* box_line and box_stat.  A string is the sequence of its characters.     *)
(***************************************************************************)
LINE_WIDTH == 44

\* longest run of digits in a value
MaxValueDigits == 36

RECURSIVE Repeat(_, _)
\* c * n
Repeat(c, n) == IF n <= 0 THEN <<>> ELSE <<c>> \o Repeat(c, n - 1)

\* f"{s:<{w}}"
LeftJustify(s, w) == s \o Repeat(" ", w - Len(s))

\* f"{s:>{w}}"
RightJustify(s, w) == Repeat(" ", w - Len(s)) \o s

\* the border glyph of box_line, named by its code point
Border == "U+2551"

box_line_notTruncated(content) ==
    <<Border>> \o LeftJustify(content, LINE_WIDTH) \o <<Border>>

box_line(content) ==
    LET fitted == IF Len(content) > LINE_WIDTH
                  THEN SubSeq(content, 1, LINE_WIDTH)
                  ELSE content
    IN  <<Border>> \o LeftJustify(fitted, LINE_WIDTH) \o <<Border>>

LabelPart(lbl) == <<" ">> \o lbl \o <<":">>

box_stat(lbl, val) ==
    LET label_part == LabelPart(lbl)
        available == LINE_WIDTH - Len(label_part) - 1
    IN  box_line(label_part \o RightJustify(val, available) \o <<" ">>)

\* the labels of the twelve stat lines of the four cards
Labels ==
    { <<"C", "U", "R", "R", "E", "N", "T", " ", "F", "L", "A", "M", "E">>,
      <<"L", "O", "N", "G", "E", "S", "T", " ", "B", "L", "A", "Z", "E">>,
      <<"D", "A", "Y", "S", " ", "A", "C", "T", "I", "V", "E">>,
      <<"B", "U", "G", "S", " ", "S", "Q", "U", "A", "S", "H", "E", "D">>,
      <<"S", "N", "O", "O", "Z", "I", "N", "G", " ", "O", "N">>,
      <<"W", "A", "K", "E", "-", "U", "P", " ", "R", "A", "T", "E">>,
      <<"T", "O", "T", "A", "L", " ", "S", "P", "L", "A", "S", "H", "E", "S">>,
      <<"R", "E", "C", "E", "N", "T", " ", "A", "C", "T", "I", "V", "I", "T", "Y">>,
      <<"E", "V", "O", "L", "U", "T", "I", "O", "N", " ", "L", "V", "L">>,
      <<"M", "E", "R", "G", "E", "D", " ", "F", "O", "R", "M", "S">>,
      <<"O", "P", "E", "N", "E", "D", " ", "F", "O", "R", "M", "S">>,
      <<"R", "E", "V", "I", "E", "W", "E", "D">> }

\* what follows the number in the value of a stat line
Suffixes ==
    { <<>>,
      <<" ", "D", "A", "Y", "S">>,
      <<"/", "3", "0", " ", "M", "O", "N", "T", "H">>,
      <<" ", "T", "I", "C", "K", "E", "T", "S">>,
      <<"%", " ", "S", "U", "C", "C", "E", "S", "S">>,
      <<"/", "M", "O", "N", "T", "H">>,
      <<" ", "P", "R", "S">> }

\* a value: a number of up to MaxValueDigits digits and a suffix, or the
\* fixed text of the EVOLUTION LVL line
Values ==
    {Repeat(d, n) \o s : d \in {"1", "9"}, n \in 0..MaxValueDigits, s \in Suffixes}
    \cup {<<"G", "Y", "A", "R", "A", "D", "O", "S", "!">>}

InitBox ==
    /\ pc = "box_stat"
    /\ label \in Labels
    /\ value \in Values
    /\ line = <<>>
    /\ history = <<>>
    /\ result = NoResult
    /\ Idle
    /\ IdleAnim

\* box_stat(label, value)
BoxStat ==
    /\ pc = "box_stat"
    /\ line' = box_stat(label, value)
    /\ pc' = "done"
    /\ UNCHANGED <<streakVars, statsVars, label, value, animVars>>

NextBox == BoxStat

SpecBox == InitBox /\ [][NextBox]_vars

(***************************************************************************)
(* Claims about the box layout, checked under SpecBox.                     *)
(***************************************************************************)
\* the characters between the two border glyphs
Inner(l) == SubSeq(l, 2, Len(l) - 1)

\* C9: a stat line is a border glyph, exactly LINE_WIDTH characters and a
\* border glyph, whatever the length of the value: a value that fits is
\* right-justified before one trailing space, after the label and padding;
\* one that does not fit is cut off at the right border.
C9_StatLineWidth ==
    pc = "done" =>
        LET content == LabelPart(label) \o value \o <<" ">>
        IN  /\ Len(line) = LINE_WIDTH + 2
            /\ line[1] = Border
            /\ line[Len(line)] = Border
            /\ \A i \in 2..(Len(line) - 1) : line[i] # Border
            /\ SubSeq(Inner(line), 1, Len(LabelPart(label))) = LabelPart(label)
            /\ IF Len(content) <= LINE_WIDTH
               THEN /\ SubSeq(Inner(line), LINE_WIDTH - Len(value), LINE_WIDTH - 1) = value
                    /\ Inner(line)[LINE_WIDTH] = " "
                    /\ \A i \in (Len(LabelPart(label)) + 1)..(LINE_WIDTH - Len(value) - 1) :
                        Inner(line)[i] = " "
               ELSE Inner(line) = SubSeq(content, 1, LINE_WIDTH)

\* C9 witness: a value longer than the whole line was laid out, and the
\* line still has LINE_WIDTH characters between its borders.
C9_Witness ==
    /\ pc = "done"
    /\ Len(value) > LINE_WIDTH
    /\ Len(line) = LINE_WIDTH + 2
    /\ line[LINE_WIDTH + 2] = Border

(***************************************************************************)
(* card_animation and the <animate> element build_card wraps around it.    *)
(* Durations are in tenths of a second, key times in 1/10000 of the cycle  *)
(* (the four decimals they are printed with).                              *)
(***************************************************************************)
CARD_DISPLAY_SECONDS == 6

\* FADE_SECONDS = 0.4, in tenths of a second
FADE_TENTHS == 4

NUM_CARDS == 4

CYCLE_SECONDS == CARD_DISPLAY_SECONDS * NUM_CARDS

CARD_DISPLAY_TENTHS == 10 * CARD_DISPLAY_SECONDS

CYCLE_TENTHS == 10 * CYCLE_SECONDS

\* the key time "1" of the end of the cycle
KeyTimeOne == 10000

\* f"{x:.4f}" of x = tenths / CYCLE_TENTHS, as a number of ten-thousandths
Format4(tenths) == (2 * KeyTimeOne * tenths + CYCLE_TENTHS) \div (2 * CYCLE_TENTHS)

Cards == 0..(NUM_CARDS - 1)

card_animation_noFadeOut(card_index) ==
    LET start == card_index * CARD_DISPLAY_TENTHS
        end == start + CARD_DISPLAY_TENTHS
        fade_in_start == start
        fade_in_end == start + FADE_TENTHS
        fade_out_start == end - FADE_TENTHS
        fade_out_end == end
    IN  IF card_index = 0
        THEN [values |-> <<1, 1, 0, 0, 1>>,
              key_times |-> <<0, Format4(fade_out_start), Format4(fade_out_end),
                              Format4(CYCLE_TENTHS - FADE_TENTHS), KeyTimeOne>>]
        ELSE IF card_index = NUM_CARDS - 1
        THEN [values |-> <<0, 0, 1, 1, 0>>,
              key_times |-> <<0, Format4(fade_in_start), Format4(fade_in_end),
                              Format4(fade_out_start), KeyTimeOne>>]
        ELSE [values |-> <<0, 0, 1, 1, 1, 1>>,
              key_times |-> <<0, Format4(fade_in_start), Format4(fade_in_end),
                              Format4(fade_out_start), Format4(fade_out_end), KeyTimeOne>>]

card_animation(card_index) ==
    LET start == card_index * CARD_DISPLAY_TENTHS
        end == start + CARD_DISPLAY_TENTHS
        fade_in_start == start
        fade_in_end == start + FADE_TENTHS
        fade_out_start == end - FADE_TENTHS
        fade_out_end == end
    IN  IF card_index = 0
        THEN [values |-> <<1, 1, 0, 0, 1>>,
              key_times |-> <<0, Format4(fade_out_start), Format4(fade_out_end),
                              Format4(CYCLE_TENTHS - FADE_TENTHS), KeyTimeOne>>]
        ELSE IF card_index = NUM_CARDS - 1
        THEN [values |-> <<0, 0, 1, 1, 0>>,
              key_times |-> <<0, Format4(fade_in_start), Format4(fade_in_end),
                              Format4(fade_out_start), KeyTimeOne>>]
        ELSE [values |-> <<0, 0, 1, 1, 0, 0>>,
              key_times |-> <<0, Format4(fade_in_start), Format4(fade_in_end),
                              Format4(fade_out_start), Format4(fade_out_end), KeyTimeOne>>]

\* instants sampled per ten-thousandth of the cycle
SamplesPerUnit == 2

CycleSamples == KeyTimeOne * SamplesPerUnit

\* key time k of a card, as a sample instant
KeyInstant(card, k) == card_animation(card).key_times[k] * SamplesPerUnit

KeyCount(card) == Len(card_animation(card).key_times)

\* the key interval that holds instant u: the last key time not after u
Segment(card, u) ==
    CHOOSE k \in 1..(KeyCount(card) - 1) :
        /\ KeyInstant(card, k) <= u
        /\ \A j \in (k + 1)..(KeyCount(card) - 1) : KeyInstant(card, j) > u

\* what <animate attributeName="opacity" values keyTimes dur repeatCount="indefinite"/>
\* shows at instant u of the cycle: the values interpolated linearly between
\* key times, as the fraction num/den, and the direction it moves in
OpacityAt(card, u) ==
    LET a == card_animation(card)
        k == Segment(card, u)
        t0 == KeyInstant(card, k)
        t1 == KeyInstant(card, k + 1)
    IN  [num |-> a.values[k] * (t1 - t0) + (a.values[k + 1] - a.values[k]) * (u - t0),
         den |-> t1 - t0,
         trend |-> a.values[k + 1] - a.values[k]]

\* the lengths of time that may pass between two samples
SampleSteps == {1, 10, 100, 1000}

InitAnim ==
    /\ pc = "animate"
    /\ t = 0
    /\ opacity = [card \in Cards |-> OpacityAt(card, 0)]
    /\ history = <<>>
    /\ result = NoResult
    /\ Idle
    /\ IdleBox

\* the cycle plays on (repeatCount="indefinite") and is sampled again
Sample ==
    /\ pc = "animate"
    /\ \E d \in SampleSteps :
        /\ t' = (t + d) % CycleSamples
        /\ opacity' = [card \in Cards |-> OpacityAt(card, t')]
    /\ UNCHANGED <<pc, streakVars, statsVars, boxVars>>

NextAnim == Sample

SpecAnim == InitAnim /\ [][NextAnim]_vars

(***************************************************************************)
(* Claims about the animation, checked under SpecAnim.                     *)
(***************************************************************************)
FullyVisible(card) == opacity[card].num = opacity[card].den

Hidden(card) == opacity[card].num = 0

Partial(card) == 0 < opacity[card].num /\ opacity[card].num < opacity[card].den

\* key intervals k of a card over which its opacity changes
Fades(card) ==
    {k \in 1..(KeyCount(card) - 1) :
        card_animation(card).values[k] # card_animation(card).values[k + 1]}

FadeOuts(card) ==
    {k \in Fades(card) : card_animation(card).values[k] > card_animation(card).values[k + 1]}

\* instant u lies in a fade interval of some card, end points included
InFade(u) ==
    \E card \in Cards : \E k \in Fades(card) :
        KeyInstant(card, k) <= u /\ u <= KeyInstant(card, k + 1)

\* instant u lies strictly inside a fade-out interval of some card
InsideFadeOut(u) ==
    \E card \in Cards : \E k \in FadeOuts(card) :
        KeyInstant(card, k) < u /\ u < KeyInstant(card, k + 1)

\* the card in whose slice of the cycle instant u lies
SliceOwner(u) == (u * NUM_CARDS) \div CycleSamples

\* C6: at an instant outside every fade interval exactly one card is fully
\* visible, the other three are hidden, and the visible card is the one in
\* whose slice the instant lies.
C6_OneCardVisible ==
    ~InFade(t) =>
        /\ FullyVisible(SliceOwner(t))
        /\ \A card \in Cards \ {SliceOwner(t)} : Hidden(card)
        /\ Cardinality({card \in Cards : FullyVisible(card)}) = 1

\* C6 witness: an instant of the third card's slice outside the fades, with
\* the third card fully visible and the first one hidden.
C6_Witness ==
    /\ ~InFade(t)
    /\ SliceOwner(t) = 2
    /\ FullyVisible(2)
    /\ Hidden(0)

\* C7 as stated: while a card fades out the next one fades in over the same
\* interval, so inside a fade-out exactly two cards have partial opacity,
\* one decreasing and one increasing, and at no instant are all cards hidden.
C7_Crossfade ==
    /\ \E card \in Cards : ~Hidden(card)
    /\ InsideFadeOut(t) =>
        /\ Cardinality({card \in Cards : Partial(card)}) = 2
        /\ \E out, in \in Cards :
            /\ Partial(out) /\ opacity[out].trend < 0
            /\ Partial(in) /\ opacity[in].trend > 0

====
